---- MODULE Spec2Model ----
(***************************************************************************)
(* StockHunter-cn: the incremental synchronization engine of               *)
(* src/src/downloader.py (planner check_status_worker, chunk worker         *)
(* download_worker, executor StockDownloader.run) and the series files it   *)
(* shares with the feature engine of src/src/data_analyzer.py.              *)
(*                                                                         *)
(* Strings of the form YYYY-MM-DD are modelled as triples <<y, m, d>>: the  *)
(* program compares them as strings, and on zero-padded fixed-width text    *)
(* that is the lexicographic order of the triples.                          *)
(***************************************************************************)
EXTENDS Integers, Sequences, FiniteSets, TLC

VARIABLES
    now,            \* datetime.datetime.now(): [date, hour]
    ticks,          \* hours the clock has advanced since the start
    files,          \* DATA_DIR: code -> series file
    all_stocks,     \* run: the symbol universe, a sequence of codes
    results,        \* run: index of all_stocks -> result of check_status_worker
    checked_at,     \* ghost: index of all_stocks -> the clock its pre-check read
    tasks_to_run,   \* run: the planned tasks
    skipped_count,  \* run: symbols that need no fetch
    run_pc,         \* run: position in StockDownloader.run
    wk,             \* pool process -> the call of download_worker it executes
    call_budget,    \* calls of download_worker the caller will still make
    fault_budget,   \* I/O errors the file system will still raise
    offer,          \* upstream: answers any rows, or the same rows to every query
    dirty,          \* ghost: upstream has delivered a batch not sorted by unique date
    last_merge,     \* ghost: the append-merge that wrote the file as it is now
    read_view,      \* the feature engine's pd.read_csv of a series file
    attempt,        \* run: the round of the download loop
    finished_codes, \* run: codes of the tasks that succeeded
    final_success_count,
    consecutive_fail,
    abort,
    chunks,         \* run: chunks of the round no pool process has taken yet
    outbox,         \* results of download_worker that run has not received yet
    served,         \* ghost: codes a returned call of download_worker reported succeeded
    az              \* TechnicalAnalyzer: one call of _process_one_stock

planVars == <<all_stocks, results, checked_at, tasks_to_run, skipped_count, run_pc>>
wkVars == <<wk, call_budget, fault_budget, offer, dirty, last_merge, read_view>>
execVars == <<attempt, finished_codes, final_success_count, consecutive_fail, abort,
             chunks, outbox, served>>
vars == <<now, ticks, files, planVars, wkVars, execVars, az>>

----------------------------------------------------------------------------
(* Bounds of the model *)

\* hours the clock may advance during one behaviour
MaxTicks == 1
\* days after each anchor date that dates are drawn from
DaySpan == 3
\* rows of a series file in the initial store
MaxInitRows == 2
\* rows upstream returns for one query
MaxRows == 2
\* I/O errors the file system raises during one behaviour of the store
MaxFaults == 1
\* calls of download_worker in one behaviour of the store specification
MaxCalls == 2
\* planned tasks of one run of the executor
MaxTasks == 51

----------------------------------------------------------------------------
(* Calendar: datetime.timedelta(days=1) on a date, strftime / strptime *)

Leap(y) == (y % 4 = 0 /\ y % 100 # 0) \/ y % 400 = 0

DaysIn(y, m) ==
    IF m = 2 THEN (IF Leap(y) THEN 29 ELSE 28)
    ELSE IF m \in {4, 6, 9, 11} THEN 30 ELSE 31

NextDay(d) ==
    IF d[3] < DaysIn(d[1], d[2]) THEN <<d[1], d[2], d[3] + 1>>
    ELSE IF d[2] < 12 THEN <<d[1], d[2] + 1, 1>>
    ELSE <<d[1] + 1, 1, 1>>

PrevDay(d) ==
    IF d[3] > 1 THEN <<d[1], d[2], d[3] - 1>>
    ELSE IF d[2] > 1 THEN <<d[1], d[2] - 1, DaysIn(d[1], d[2] - 1)>>
    ELSE <<d[1] - 1, 12, 31>>

\* string order of two YYYY-MM-DD texts
DateLT(a, b) ==
    \/ a[1] < b[1]
    \/ a[1] = b[1] /\ a[2] < b[2]
    \/ a[1] = b[1] /\ a[2] = b[2] /\ a[3] < b[3]

DateLE(a, b) == a = b \/ DateLT(a, b)

RECURSIVE DayAfter(_, _)
DayAfter(d, k) == IF k = 0 THEN d ELSE DayAfter(NextDay(d), k - 1)

\* the dates of the model: a few days around a year end and a leap day
Anchors == {<<2023, 12, 30>>, <<2024, 2, 27>>}
Dates == {DayAfter(a, k) : a \in Anchors, k \in 0..DaySpan}

----------------------------------------------------------------------------
(* Text values: the first field of a line, a formatted date, or None *)

NoDate == <<0, 0, 0>>
None == [tag |-> "none", ymd |-> NoDate]
\* the field "date" of the header line
HeaderField == [tag |-> "text", ymd |-> NoDate]
\* strftime("%Y-%m-%d")
DateStr(d) == [tag |-> "date", ymd |-> d]

\* a >= b on strings, b a formatted date: a letter sorts after every digit
StrGE(a, b) ==
    IF a.tag = "text" THEN TRUE ELSE DateLE(b.ymd, a.ymd)

StrGT(a, b) ==
    IF a.tag = "text" THEN TRUE ELSE DateLT(b.ymd, a.ymd)

----------------------------------------------------------------------------
(* Series files: header line and rows, as the bytes on disk *)

NoFile == [exists |-> FALSE, hdr |-> FALSE, rows |-> <<>>]
\* a file opened for writing and not yet written: zero bytes
EmptyFile == [exists |-> TRUE, hdr |-> FALSE, rows |-> <<>>]
CsvFile(rows) == [exists |-> TRUE, hdr |-> TRUE, rows |-> rows]

\* the series is sorted ascending by date with no date twice
SortedUnique(rows) ==
    \A i \in 1..Len(rows) : \A j \in 1..Len(rows) :
        i < j => DateLT(rows[i].date, rows[j].date)

\* os.path.getsize(file_path) < 50: the header line alone is longer
SizeBelow50(f) == ~f.hdr /\ f.rows = <<>>

\* mutant: the size threshold also rejects a file of a single row
get_last_date_bigthreshold(f) ==
    IF ~f.exists THEN None
    ELSE IF Len(f.rows) < 2 THEN None
    ELSE DateStr(f.rows[Len(f.rows)].date)

get_last_date(f) ==
    IF ~f.exists THEN None
    ELSE IF SizeBelow50(f) THEN None
    ELSE IF f.rows = <<>> THEN HeaderField
    ELSE DateStr(f.rows[Len(f.rows)].date)

----------------------------------------------------------------------------
(* Program constants (src/config.py) *)

DEFAULT_START_DATE == <<2023, 1, 1>>
DATA_READY_HOUR == 17
MAX_ATTEMPTS == 7
ABORT_THRESHOLD == 50

----------------------------------------------------------------------------
(* SyncPlanner: check_status_worker *)

Result(item, need_dl, start, mode) ==
    [item |-> item, need_dl |-> need_dl, start |-> start, mode |-> mode]

Pending == Result(0, FALSE, None, "pending")

\* mutant: the cutoff comparison includes the ready hour itself
check_status_worker_le(item, f, clock) ==
    LET today_str == DateStr(clock.date)
        last_date == get_last_date(f)
        yesterday == DateStr(PrevDay(clock.date))
    IN  IF ~f.exists \/ last_date.tag = "none"
        THEN Result(item, TRUE, DateStr(DEFAULT_START_DATE), "w")
        ELSE IF StrGE(last_date, today_str) THEN Result(item, FALSE, None, "none")
        ELSE IF last_date.tag # "date" THEN Result(item, FALSE, None, "ValueError")
        ELSE IF last_date = yesterday /\ clock.hour <= DATA_READY_HOUR
             THEN Result(item, FALSE, None, "none")
        ELSE LET new_start_date == DateStr(NextDay(last_date.ymd))
             IN  IF StrGT(new_start_date, today_str)
                 THEN Result(item, FALSE, None, "none")
                 ELSE Result(item, TRUE, new_start_date, "a")

\* mutant: an incremental task starts on the last stored date itself
check_status_worker_sameday(item, f, clock) ==
    LET today_str == DateStr(clock.date)
        last_date == get_last_date(f)
        yesterday == DateStr(PrevDay(clock.date))
    IN  IF ~f.exists \/ last_date.tag = "none"
        THEN Result(item, TRUE, DateStr(DEFAULT_START_DATE), "w")
        ELSE IF StrGE(last_date, today_str) THEN Result(item, FALSE, None, "none")
        ELSE IF last_date.tag # "date" THEN Result(item, FALSE, None, "ValueError")
        ELSE IF last_date = yesterday /\ clock.hour < DATA_READY_HOUR
             THEN Result(item, FALSE, None, "none")
        ELSE Result(item, TRUE, last_date, "a")

check_status_worker(item, f, clock) ==
    LET today_str == DateStr(clock.date)
        current_hour == clock.hour
        start_date == DateStr(DEFAULT_START_DATE)
        last_date == get_last_date(f)
        yesterday == DateStr(PrevDay(clock.date))
    IN  IF ~f.exists THEN Result(item, TRUE, start_date, "w")
        ELSE IF last_date.tag = "none" THEN Result(item, TRUE, start_date, "w")
        ELSE IF StrGE(last_date, today_str) THEN Result(item, FALSE, None, "none")
        ELSE IF last_date.tag # "date" THEN Result(item, FALSE, None, "ValueError")
        ELSE IF last_date = yesterday /\ current_hour < DATA_READY_HOUR
             THEN Result(item, FALSE, None, "none")
        ELSE LET new_start_date == DateStr(NextDay(last_date.ymd))
             IN  IF StrGT(new_start_date, today_str)
                 THEN Result(item, FALSE, None, "none")
                 ELSE Result(item, TRUE, new_start_date, "a")

----------------------------------------------------------------------------
(* The clock *)

Tick ==
    /\ ticks < MaxTicks
    /\ ticks' = ticks + 1
    /\ now' = IF now.hour < 23
              THEN [now EXCEPT !.hour = now.hour + 1]
              ELSE [date |-> NextDay(now.date), hour |-> 0]
    /\ UNCHANGED <<files, planVars, wkVars, execVars, az>>

----------------------------------------------------------------------------
(* StockDownloader.run, step 2: the pre-check over the universe *)

\* one call of check_status_worker made by pool.map, in any order
CheckStatus(i) ==
    /\ run_pc = "precheck"
    /\ i \in DOMAIN results
    /\ results[i].mode = "pending"
    /\ results' = [results EXCEPT
                      ![i] = check_status_worker(all_stocks[i], files[all_stocks[i]], now)]
    /\ checked_at' = [checked_at EXCEPT ![i] = now]
    /\ UNCHANGED <<now, ticks, files, all_stocks, tasks_to_run, skipped_count, run_pc, wkVars, execVars, az>>

\* mutant: every result becomes a task, need_dl is not looked at
CollectAllFrom(res, i) ==
    [k \in 1..(Len(res) - i + 1) |-> res[k + i - 1]]

RECURSIVE CollectFrom(_, _)
CollectFrom(res, i) ==
    IF i > Len(res) THEN <<>>
    ELSE (IF res[i].need_dl THEN <<res[i]>> ELSE <<>>) \o CollectFrom(res, i + 1)

RECURSIVE SkippedFrom(_, _)
SkippedFrom(res, i) ==
    IF i > Len(res) THEN 0
    ELSE (IF res[i].need_dl THEN 0 ELSE 1) + SkippedFrom(res, i + 1)

\* the loop over results that fills tasks_to_run
Collect ==
    /\ run_pc = "precheck"
    /\ \A i \in DOMAIN results : results[i].mode # "pending"
    /\ tasks_to_run' = CollectFrom(results, 1)
    /\ skipped_count' = SkippedFrom(results, 1)
    /\ run_pc' = IF tasks_to_run' = <<>> THEN "done" ELSE "planned"
    /\ UNCHANGED <<now, ticks, files, all_stocks, results, checked_at, wkVars, execVars, az>>

RECURSIVE SeriesEnding(_, _)
\* the sorted series of n rows of consecutive days that ends at date d
SeriesEnding(d, n) ==
    IF n = 0 THEN <<>>
    ELSE Append(SeriesEnding(PrevDay(d), n - 1), [date |-> d, close |-> 1])

----------------------------------------------------------------------------
(* SeriesStore merge: pd.concat, drop_duplicates(keep='last'), sort_values *)

RECURSIVE SeqToSetOfDates(_)
SeqToSetOfDates(rows) ==
    IF rows = <<>> THEN {}
    ELSE {Head(rows).date} \cup SeqToSetOfDates(Tail(rows))

\* drop_duplicates(subset=['date'], keep='last')
RECURSIVE DropDuplicatesKeepLast(_)
DropDuplicatesKeepLast(rows) ==
    IF rows = <<>> THEN <<>>
    ELSE IF Head(rows).date \in SeqToSetOfDates(Tail(rows))
         THEN DropDuplicatesKeepLast(Tail(rows))
         ELSE <<Head(rows)>> \o DropDuplicatesKeepLast(Tail(rows))

\* drop_duplicates(subset=['date'], keep='first')
RECURSIVE DropDuplicatesKeepFirst(_)
DropDuplicatesKeepFirst(rows) ==
    IF rows = <<>> THEN <<>>
    ELSE LET init == SubSeq(rows, 1, Len(rows) - 1)
             last == rows[Len(rows)]
         IN  IF last.date \in SeqToSetOfDates(init)
             THEN DropDuplicatesKeepFirst(init)
             ELSE DropDuplicatesKeepFirst(init) \o <<last>>

RECURSIVE InsertByDate(_, _)
InsertByDate(r, sorted) ==
    IF sorted = <<>> THEN <<r>>
    ELSE IF DateLT(r.date, Head(sorted).date) THEN <<r>> \o sorted
    ELSE <<Head(sorted)>> \o InsertByDate(r, Tail(sorted))

\* sort_values('date')
RECURSIVE SortValuesByDate(_)
SortValuesByDate(rows) ==
    IF rows = <<>> THEN <<>>
    ELSE InsertByDate(rows[Len(rows)], SortValuesByDate(SubSeq(rows, 1, Len(rows) - 1)))

\* mutant: on a date collision the stored record wins
AppendMergeKeepFirst(old_df, new_df) ==
    SortValuesByDate(DropDuplicatesKeepFirst(old_df \o new_df))

\* mutant: the incoming rows are appended to the file as they come
AppendMergeNaive(old_df, new_df) == old_df \o new_df

\* final_df of download_worker, lines 145-148
AppendMerge(old_df, new_df) ==
    SortValuesByDate(DropDuplicatesKeepLast(old_df \o new_df))

----------------------------------------------------------------------------
(* Upstream rows and their conversion: pd.to_numeric(errors='coerce').fillna(0) *)

\* the price field of an upstream row, as text; the empty text is no number
RawVals == {"", "2"}

ToNumeric(raw) == IF raw = "2" THEN 2 ELSE 0

NumericRows(data_list) ==
    [i \in 1..Len(data_list) |->
        [date |-> data_list[i].date, close |-> ToNumeric(data_list[i].close)]]

\* the dates upstream answers with: the last date of the initial store and the next
StoreDay == <<2024, 2, 29>>
StoreDates == {StoreDay, NextDay(StoreDay)}
UpstreamRows == [date : StoreDates, close : RawVals]

RECURSIVE SeqsUpTo(_, _)
SeqsUpTo(S, n) ==
    IF n = 0 THEN {<<>>}
    ELSE LET shorter == SeqsUpTo(S, n - 1)
         IN  shorter \cup {Append(q, x) : q \in {r \in shorter : Len(r) = n - 1}, x \in S}

\* what the loop over rs.next() can collect
Batches == SeqsUpTo(UpstreamRows, MaxRows)

\* upstream: which rows a query is answered with, and the codes whose queries
\* are refused (a non-zero error code) during the first rounds of a run
AnyRows == [free |-> TRUE, rows |-> <<>>, down |-> {}, until |-> 0]
SameRows(b) == [free |-> FALSE, rows |-> b, down |-> {}, until |-> 0]
Outage(b, codes, last_round) ==
    [free |-> FALSE, rows |-> b, down |-> codes, until |-> last_round]
Responses == IF offer.free THEN Batches ELSE {offer.rows}

----------------------------------------------------------------------------
(* download_worker: one call, positioned by pc *)

\* max(2, multiprocessing.cpu_count() - 2): its value on up to four cores
PROCESS_COUNT == 2
Slots == 1..PROCESS_COUNT

IdleWorker ==
    [pc |-> "idle", tasks |-> <<>>, k |-> 0, today |-> NoDate, logged_in |-> FALSE,
     success |-> <<>>, failed |-> <<>>,
     new_df |-> <<>>, buf |-> <<>>, in_merge |-> FALSE,
     pre |-> NoFile, io_failed |-> FALSE, io_failed_items |-> {}]

NoMerge == [valid |-> FALSE, code |-> 0]
Unread == [code |-> 0, kind |-> "unread", during |-> "none"]

IdlePool ==
    /\ wk = [w \in Slots |-> IdleWorker]
    /\ attempt = 0
    /\ finished_codes = {}
    /\ final_success_count = 0
    /\ consecutive_fail = 0
    /\ abort = FALSE
    /\ chunks = <<>>
    /\ outbox = <<>>
    /\ served = {}
    /\ dirty = FALSE
    /\ last_merge = NoMerge
    /\ read_view = Unread

InitWorkers ==
    /\ IdlePool
    /\ az = [pc |-> "none"]

Range(q) == {q[i] : i \in DOMAIN q}

CurTask(r) == r.tasks[r.k]
CurCode(r) == CurTask(r).item

\* bs.query_history_k_data_plus(code, ..., start_date=start_date,
\* end_date=today_str, ...), lines 114-119
Query(r) ==
    [code |-> CurCode(r), start_date |-> CurTask(r).start, end_date |-> DateStr(r.today)]

\* the loop of line 108 moves to the next task, or leaves for bs.logout()
NextTask(r) ==
    LET cleared == [r EXCEPT !.new_df = <<>>, !.buf = <<>>, !.in_merge = FALSE,
                             !.pre = NoFile, !.io_failed = FALSE]
    IN  IF r.k < Len(r.tasks)
        THEN [cleared EXCEPT !.k = r.k + 1, !.pc = "fetch"]
        ELSE [cleared EXCEPT !.pc = "logout"]

\* mutant: a failed task ends the chunk
FailTaskEndsChunk(r) ==
    [r EXCEPT !.failed = Append(@, CurCode(r)), !.pc = "logout"]

\* failed.append(item); continue
FailTask(r) == NextTask([r EXCEPT !.failed = Append(@, CurCode(r))])

\* success.append(item)
SucceedTask(r) == NextTask([r EXCEPT !.success = Append(@, CurCode(r))])

\* an exception after the fetch: inside the try of line 142 the bare except
\* of line 150 overwrites the file with new_df; elsewhere the except of line
\* 159 fails the task
OnException(r) ==
    IF r.in_merge
    THEN [r EXCEPT !.in_merge = FALSE, !.buf = r.new_df, !.pc = "open"]
    ELSE FailTask(r)

\* read_csv or to_csv raises an I/O error
OnStoreError(r) ==
    OnException([r EXCEPT !.io_failed = TRUE,
                          !.io_failed_items = @ \cup {CurCode(r)}])

\* args = (task_list, use_proxy); today_str is read once per call (line 96)
StartCall(w, task_list) ==
    /\ wk[w].pc = "idle"
    /\ wk' = [wk EXCEPT ![w] = [IdleWorker EXCEPT !.pc = "login", !.tasks = task_list,
                                                  !.today = now.date]]

\* bs.login() succeeds
LoginOk(w) ==
    /\ wk[w].pc = "login"
    /\ wk' = [wk EXCEPT ![w] = [@ EXCEPT !.pc = "fetch", !.k = 1, !.logged_in = TRUE]]
    /\ UNCHANGED <<now, ticks, files, planVars, call_budget, fault_budget, offer, dirty, last_merge, read_view, execVars, az>>

\* mutant: bs.login() has failed and the loop over the tasks runs all the same
LoginFailsGoesOn(w) ==
    /\ wk[w].pc = "login"
    /\ wk' = [wk EXCEPT ![w] = [@ EXCEPT !.pc = "fetch", !.k = 1]]
    /\ UNCHANGED <<now, ticks, files, planVars, call_budget, fault_budget, offer, dirty, last_merge, read_view, execVars, az>>

\* bs.login() raises or answers a non-zero error code: lines 100-103
LoginFails(w) ==
    /\ wk[w].pc = "login"
    /\ wk' = [wk EXCEPT ![w] = [@ EXCEPT !.pc = "returned",
                  !.failed = [i \in 1..Len(wk[w].tasks) |-> wk[w].tasks[i].item]]]
    /\ UNCHANGED <<now, ticks, files, planVars, call_budget, fault_budget, offer, dirty, last_merge, read_view, execVars, az>>

\* query_history_k_data_plus raises, or rs.error_code != '0'
FetchFails(w) ==
    /\ wk[w].pc = "fetch"
    /\ wk' = [wk EXCEPT ![w] = FailTask(@)]
    /\ UNCHANGED <<now, ticks, files, planVars, call_budget, fault_budget, offer, dirty, last_merge, read_view, execVars, az>>

\* mutant: an answer without rows is written like any other
FetchRowsWritesEmpty(w, data_list) ==
    /\ wk[w].pc = "fetch"
    /\ LET r == wk[w]
           f == files[CurCode(r)]
           new_df == NumericRows(data_list)
       IN  /\ wk' = [wk EXCEPT ![w] =
                  IF CurTask(r).mode = "a" /\ f.exists
                  THEN [r EXCEPT !.new_df = new_df, !.in_merge = TRUE,
                                 !.pre = f, !.pc = "read"]
                  ELSE [r EXCEPT !.new_df = new_df, !.buf = new_df,
                                 !.in_merge = FALSE, !.pre = f, !.pc = "open"]]
           /\ dirty' = (dirty \/ ~SortedUnique(new_df))
    /\ UNCHANGED <<now, ticks, files, planVars, call_budget, fault_budget, offer, last_merge, read_view, execVars, az>>

\* the query answers with data_list; lines 121-141 up to the choice of branch
FetchRows(w, data_list) ==
    /\ wk[w].pc = "fetch"
    /\ LET r == wk[w]
           f == files[CurCode(r)]
           new_df == NumericRows(data_list)
       IN  /\ wk' = [wk EXCEPT ![w] =
                  IF data_list = <<>> THEN SucceedTask(r)
                  ELSE IF CurTask(r).mode = "a" /\ f.exists
                       THEN [r EXCEPT !.new_df = new_df, !.in_merge = TRUE,
                                      !.pre = f, !.pc = "read"]
                       ELSE [r EXCEPT !.new_df = new_df, !.buf = new_df,
                                      !.in_merge = FALSE, !.pre = f, !.pc = "open"]]
           /\ dirty' = (dirty \/ ~SortedUnique(new_df))
    /\ UNCHANGED <<now, ticks, files, planVars, call_budget, fault_budget, offer, last_merge, read_view, execVars, az>>

\* old_df = pd.read_csv(file_path), which raises EmptyDataError on a file of
\* zero bytes; final_df is merged, deduplicated, sorted
ReadOld(w) ==
    /\ wk[w].pc = "read"
    /\ LET r == wk[w]
           f == files[CurCode(r)]
       IN  wk' = [wk EXCEPT ![w] =
                  IF SizeBelow50(f) \/ ~f.exists
                  THEN OnException(r)
                  ELSE [r EXCEPT !.buf = AppendMerge(f.rows, r.new_df), !.pc = "open"]]
    /\ UNCHANGED <<now, ticks, files, planVars, call_budget, fault_budget, offer, dirty, last_merge, read_view, execVars, az>>

\* pd.read_csv raises an I/O error
ReadOldFault(w) ==
    /\ wk[w].pc = "read"
    /\ fault_budget > 0
    /\ fault_budget' = fault_budget - 1
    /\ wk' = [wk EXCEPT ![w] = OnStoreError(@)]
    /\ UNCHANGED <<now, ticks, files, planVars, call_budget, offer, dirty, last_merge, read_view, execVars, az>>

\* to_csv opens file_path for writing: the file is created or truncated
OpenFile(w) ==
    /\ wk[w].pc = "open"
    /\ files' = [files EXCEPT ![CurCode(wk[w])] = EmptyFile]
    /\ wk' = [wk EXCEPT ![w] = [@ EXCEPT !.pc = "write"]]
    /\ last_merge' = IF last_merge.code = CurCode(wk[w]) /\ ~wk[w].in_merge
                     THEN NoMerge ELSE last_merge
    /\ UNCHANGED <<now, ticks, planVars, call_budget, fault_budget, offer, dirty, read_view, execVars, az>>

\* to_csv cannot open the file
OpenFault(w) ==
    /\ wk[w].pc = "open"
    /\ fault_budget > 0
    /\ fault_budget' = fault_budget - 1
    /\ wk' = [wk EXCEPT ![w] = OnStoreError(@)]
    /\ UNCHANGED <<now, ticks, files, planVars, call_budget, offer, dirty, last_merge, read_view, execVars, az>>

\* to_csv writes the header line, then one more row of the frame
WriteNext(w) ==
    /\ wk[w].pc = "write"
    /\ LET r == wk[w]
           c == CurCode(r)
           f == files[c]
       IN  /\ files' = [files EXCEPT ![c] =
                  IF ~f.hdr THEN [f EXCEPT !.hdr = TRUE]
                  ELSE [f EXCEPT !.rows = Append(@, r.buf[Len(f.rows) + 1])]]
           /\ wk' = [wk EXCEPT ![w] =
                  IF files'[c].hdr /\ Len(files'[c].rows) = Len(r.buf)
                  THEN [r EXCEPT !.pc = "written"] ELSE r]
    /\ UNCHANGED <<now, ticks, planVars, call_budget, fault_budget, offer, dirty, last_merge, read_view, execVars, az>>

\* a write of to_csv raises (disk full, device error): the file stays as far
\* as it was written
WriteFault(w) ==
    /\ wk[w].pc = "write"
    /\ fault_budget > 0
    /\ fault_budget' = fault_budget - 1
    /\ wk' = [wk EXCEPT ![w] = OnStoreError(@)]
    /\ last_merge' = IF last_merge.code = CurCode(wk[w]) THEN NoMerge ELSE last_merge
    /\ UNCHANGED <<now, ticks, files, planVars, call_budget, offer, dirty, read_view, execVars, az>>

\* to_csv has returned: success.append(item), line 158
TaskDone(w) ==
    /\ wk[w].pc = "written"
    /\ last_merge' = IF wk[w].in_merge
                     THEN [valid |-> TRUE, code |-> CurCode(wk[w])]
                     ELSE last_merge
    /\ wk' = [wk EXCEPT ![w] = SucceedTask(@)]
    /\ UNCHANGED <<now, ticks, files, planVars, call_budget, fault_budget, offer, dirty, read_view, execVars, az>>

\* bs.logout(), line 162
Logout(w) ==
    /\ wk[w].pc = "logout"
    /\ wk' = [wk EXCEPT ![w] = [@ EXCEPT !.pc = "returned", !.logged_in = FALSE]]
    /\ UNCHANGED <<now, ticks, files, planVars, call_budget, fault_budget, offer, dirty, last_merge, read_view, execVars, az>>

\* the query of a code upstream refuses in this round: rs.error_code != '0'
Refused(r) == CurCode(r) \in offer.down /\ attempt <= offer.until

QueryRefused(w) ==
    /\ wk[w].pc = "fetch"
    /\ Refused(wk[w])
    /\ FetchFails(w)

QueryServed(w) ==
    /\ wk[w].pc = "fetch"
    /\ ~Refused(wk[w])
    /\ \E data_list \in Responses : FetchRows(w, data_list)

WorkerStep(w) ==
    \/ LoginOk(w)
    \/ LoginFails(w)
    \/ FetchFails(w)
    \/ \E data_list \in Responses : FetchRows(w, data_list)
    \/ ReadOld(w)
    \/ OpenFile(w)
    \/ WriteNext(w)
    \/ TaskDone(w)
    \/ Logout(w)

StoreFault(w) ==
    \/ ReadOldFault(w)
    \/ OpenFault(w)
    \/ WriteFault(w)

----------------------------------------------------------------------------
(* The feature engine's read of a series file: _process_one_stock, line 58 *)

Writing(w, c) == wk[w].pc = "write" /\ CurCode(wk[w]) = c

\* df = pd.read_csv(file_path), at any moment of the writer's progress
ReaderRead(c) ==
    /\ read_view.kind = "unread"
    /\ c \in DOMAIN files
    /\ files[c].exists
    /\ read_view' =
          [code |-> c,
           kind |-> IF \E w \in Slots :
                         /\ Writing(w, c)
                         /\ files[c] # wk[w].pre
                         /\ files[c] # CsvFile(wk[w].buf)
                    THEN "torn" ELSE "whole",
           during |-> IF \E w \in Slots : Writing(w, c) /\ wk[w].in_merge THEN "merge"
                      ELSE IF \E w \in Slots : Writing(w, c) THEN "write"
                      ELSE "none"]
    /\ UNCHANGED <<now, ticks, files, planVars, wk, call_budget, fault_budget, offer, dirty, last_merge, execVars, az>>

----------------------------------------------------------------------------
(* The store's specification: download_worker called on one symbol's task *)

StoreTasks ==
    {Result(1, TRUE, DateStr(d), mode) : d \in {StoreDay}, mode \in {"a", "w"}}

StoreInitFiles ==
    {NoFile, EmptyFile} \cup {CsvFile(SeriesEnding(StoreDay, n)) : n \in 1..MaxInitRows}

\* a caller hands one chunk to download_worker
StoreCall(w) ==
    /\ call_budget > 0
    /\ call_budget' = call_budget - 1
    /\ \A v \in Slots : wk[v].pc = "idle"
    /\ \E t \in StoreTasks : StartCall(w, <<t>>)
    /\ UNCHANGED <<now, ticks, files, planVars, fault_budget, offer, dirty, last_merge, read_view, execVars, az>>

\* the caller takes (success, failed)
StoreReturn(w) ==
    /\ wk[w].pc = "returned"
    /\ wk' = [wk EXCEPT ![w] = IdleWorker]
    /\ UNCHANGED <<now, ticks, files, planVars, call_budget, fault_budget, offer, dirty, last_merge, read_view, execVars, az>>

StoreWorld ==
    /\ now = [date |-> NextDay(StoreDay), hour |-> DATA_READY_HOUR]
    /\ ticks = 0
    /\ all_stocks = <<1>>
    /\ files \in [{1} -> StoreInitFiles]
    /\ results = <<>>
    /\ checked_at = <<>>
    /\ tasks_to_run = <<>>
    /\ skipped_count = 0
    /\ run_pc = "idle"
    /\ InitWorkers

\* any answer of upstream to every query, and I/O errors
InitStore ==
    /\ StoreWorld
    /\ call_budget = MaxCalls
    /\ fault_budget = MaxFaults
    /\ offer = AnyRows

NextStore ==
    \/ StoreCall(1)
    \/ \E w \in Slots : WorkerStep(w)
    \/ \E w \in Slots : StoreFault(w)
    \/ \E w \in Slots : StoreReturn(w)

SpecStore == InitStore /\ [][NextStore]_vars

\* upstream answers every query of the behaviour with the same rows
InitTwice ==
    /\ StoreWorld
    /\ call_budget = MaxCalls
    /\ fault_budget = 0
    /\ \E b \in Batches : offer = SameRows(b)

NextTwice ==
    \/ StoreCall(1)
    \/ \E w \in Slots : WorkerStep(w)
    \/ \E w \in Slots : StoreReturn(w)

SpecTwice == InitTwice /\ [][NextTwice]_vars

\* one call of download_worker while the feature engine reads the file
InitRead ==
    /\ StoreWorld
    /\ call_budget = 1
    /\ fault_budget = 0
    /\ offer = AnyRows

NextRead ==
    \/ StoreCall(1)
    \/ \E w \in Slots : WorkerStep(w)
    \/ \E w \in Slots : StoreReturn(w)
    \/ \E c \in {1} : ReaderRead(c)

SpecRead == InitRead /\ [][NextRead]_vars

----------------------------------------------------------------------------
(* StockDownloader.run, step 3: the download loop and its circuit breaker *)

chunk_size == 20

\* current_batch: the tasks whose code is not in finished_codes, line 259
\* mutant: every planned task is dispatched again in every round
CurrentBatchAll(pending, done) == pending

CurrentBatch(pending, done) ==
    LET Unfinished(t) == t.item \notin done
    IN  SelectSeq(pending, Unfinished)

Min(a, b) == IF a < b THEN a ELSE b

\* the slices current_batch[i:i + chunk_size], lines 267-269
RECURSIVE ChunksOf(_)
ChunksOf(batch) ==
    IF batch = <<>> THEN <<>>
    ELSE <<SubSeq(batch, 1, Min(chunk_size, Len(batch)))>>
             \o ChunksOf(SubSeq(batch, chunk_size + 1, Len(batch)))

\* mutant: the breaker counts failed chunks, not failed tasks
CountChunks(count, success_list, failed_list) ==
    IF success_list # <<>> THEN 0 ELSE count + 1

\* mutant: a chunk result with a success does not reset the count
CountFailuresNoReset(count, success_list, failed_list) == count + Len(failed_list)

\* consecutive_fail after one chunk result, lines 284-287
CountFailures(count, success_list, failed_list) ==
    IF success_list # <<>> THEN 0 ELSE count + Len(failed_list)

\* the head of the for loop: filter, break when nothing is left, cut chunks
StartRound ==
    /\ run_pc \in {"planned", "next_round"}
    /\ LET current_batch == CurrentBatch(tasks_to_run, finished_codes)
       IN  IF current_batch = <<>>
           THEN /\ run_pc' = "done"
                /\ UNCHANGED <<attempt, chunks, consecutive_fail, abort>>
           ELSE /\ run_pc' = "round"
                /\ attempt' = attempt + 1
                /\ chunks' = ChunksOf(current_batch)
                /\ consecutive_fail' = 0
                /\ abort' = FALSE
    /\ UNCHANGED <<now, ticks, files, all_stocks, results, checked_at, tasks_to_run,
                   skipped_count, wkVars, finished_codes, final_success_count, outbox,
                   served, az>>

\* a pool process takes the next chunk of imap_unordered
Dispatch(w) ==
    /\ run_pc = "round"
    /\ chunks # <<>>
    /\ StartCall(w, Head(chunks))
    /\ chunks' = Tail(chunks)
    /\ UNCHANGED <<now, ticks, files, planVars, call_budget, fault_budget, offer, dirty,
                   last_merge, read_view, attempt, finished_codes, final_success_count,
                   consecutive_fail, abort, outbox, served, az>>

\* download_worker returns (success, failed) to the pool
WorkerReturn(w) ==
    /\ run_pc = "round"
    /\ wk[w].pc = "returned"
    /\ outbox' = Append(outbox, [success |-> wk[w].success, failed |-> wk[w].failed])
    /\ served' = served \cup Range(wk[w].success)
    /\ wk' = [wk EXCEPT ![w] = IdleWorker]
    /\ UNCHANGED <<now, ticks, files, planVars, call_budget, fault_budget, offer, dirty,
                   last_merge, read_view, attempt, finished_codes, final_success_count,
                   consecutive_fail, abort, chunks, az>>

\* one iteration of the loop over imap_unordered, lines 276-292: on abort
\* pool.terminate() stops every pool process where it stands
Receive ==
    /\ run_pc = "round"
    /\ outbox # <<>>
    /\ LET success_list == Head(outbox).success
           failed_list == Head(outbox).failed
           count == CountFailures(consecutive_fail, success_list, failed_list)
       IN  /\ finished_codes' = finished_codes \cup Range(success_list)
           /\ final_success_count' = final_success_count + Len(success_list)
           /\ consecutive_fail' = count
           /\ IF count >= ABORT_THRESHOLD
              THEN /\ abort' = TRUE
                   /\ wk' = [w \in Slots |-> IdleWorker]
                   /\ chunks' = <<>>
                   /\ outbox' = <<>>
                   /\ run_pc' = "done"
              ELSE /\ outbox' = Tail(outbox)
                   /\ UNCHANGED <<abort, wk, chunks, run_pc>>
    /\ UNCHANGED <<now, ticks, files, all_stocks, results, checked_at, tasks_to_run,
                   skipped_count, call_budget, fault_budget, offer, dirty, last_merge,
                   read_view, attempt, served, az>>

\* mutant: the loop goes on to another round whatever the round's number
EndRoundNoLimit ==
    /\ run_pc = "round"
    /\ chunks = <<>>
    /\ outbox = <<>>
    /\ \A w \in Slots : wk[w].pc = "idle"
    /\ run_pc' = "next_round"
    /\ UNCHANGED <<now, ticks, files, all_stocks, results, checked_at, tasks_to_run,
                   skipped_count, wkVars, attempt, finished_codes, final_success_count,
                   consecutive_fail, abort, chunks, outbox, served, az>>

\* every chunk result of the round is in: the pool is left, lines 294-299
EndRound ==
    /\ run_pc = "round"
    /\ chunks = <<>>
    /\ outbox = <<>>
    /\ \A w \in Slots : wk[w].pc = "idle"
    /\ run_pc' = IF attempt < MAX_ATTEMPTS THEN "next_round" ELSE "done"
    /\ UNCHANGED <<now, ticks, files, all_stocks, results, checked_at, tasks_to_run,
                   skipped_count, wkVars, attempt, finished_codes, final_success_count,
                   consecutive_fail, abort, chunks, outbox, served, az>>

----------------------------------------------------------------------------
(* The executor's specification with upstream down: a universe without     *)
(* local files has been planned, and every login or query fails            *)

FullTasks(n) == [i \in 1..n |-> Result(i, TRUE, DateStr(DEFAULT_START_DATE), "w")]

\* sizes of the plan: one task, one chunk, around the threshold, the bound
TaskCounts == {1, chunk_size, ABORT_THRESHOLD - 1, ABORT_THRESHOLD, MaxTasks}

InitAllFail ==
    /\ now = [date |-> StoreDay, hour |-> DATA_READY_HOUR]
    /\ ticks = 0
    /\ \E n \in TaskCounts :
          /\ all_stocks = [i \in 1..n |-> i]
          /\ files = [i \in 1..n |-> NoFile]
          /\ results = FullTasks(n)
          /\ checked_at = [i \in 1..n |-> now]
          /\ tasks_to_run = FullTasks(n)
    /\ skipped_count = 0
    /\ run_pc = "planned"
    /\ InitWorkers
    /\ call_budget = 0
    /\ fault_budget = 0
    /\ offer = SameRows(<<>>)

NextAllFail ==
    \/ StartRound
    \/ \E w \in Slots : Dispatch(w)
    \/ \E w \in Slots : LoginOk(w)
    \/ \E w \in Slots : LoginFails(w)
    \/ \E w \in Slots : FetchFails(w)
    \/ \E w \in Slots : Logout(w)
    \/ \E w \in Slots : WorkerReturn(w)
    \/ Receive
    \/ EndRound

SpecAllFail == InitAllFail /\ [][NextAllFail]_vars

----------------------------------------------------------------------------
(* The executor's specification with outages: a universe without local     *)
(* files has been planned; upstream has no rows for any code and refuses   *)
(* the queries of some codes during the first rounds                       *)

\* no outage; the first code, all codes but the first, or all codes refused,
\* in the first round only or in every round
Outages(n) ==
    {SameRows(<<>>)} \cup
    {Outage(<<>>, codes, last_round) :
        codes \in {{1}, 2..n, 1..n} \ {{}}, last_round \in {1, MAX_ATTEMPTS}}

RunWorld(counts) ==
    /\ now = [date |-> StoreDay, hour |-> DATA_READY_HOUR]
    /\ ticks = 0
    /\ \E n \in counts :
          /\ all_stocks = [i \in 1..n |-> i]
          /\ files = [i \in 1..n |-> NoFile]
          /\ results = FullTasks(n)
          /\ checked_at = [i \in 1..n |-> now]
          /\ tasks_to_run = FullTasks(n)
          /\ offer \in Outages(n)
    /\ skipped_count = 0
    /\ run_pc = "planned"
    /\ InitWorkers
    /\ call_budget = 0
    /\ fault_budget = 0

\* sizes of the plan: one task, one chunk and one task, enough tasks for the
\* breaker to trip after a chunk that holds a success
InitRun == RunWorld({1, chunk_size + 1, ABORT_THRESHOLD + chunk_size})

NextRun ==
    \/ StartRound
    \/ \E w \in Slots : Dispatch(w)
    \/ \E w \in Slots : LoginOk(w)
    \/ \E w \in Slots : QueryRefused(w)
    \/ \E w \in Slots : QueryServed(w)
    \/ \E w \in Slots : Logout(w)
    \/ \E w \in Slots : WorkerReturn(w)
    \/ Receive
    \/ EndRound

SpecRun == InitRun /\ [][NextRun]_vars

\* sizes of the plan for the runs whose end is checked: one task, one chunk
\* and one task, the threshold
InitRunFair == RunWorld({1, chunk_size + 1, ABORT_THRESHOLD})

\* every process is scheduled and every call to upstream returns: a step
\* that can be taken is taken
SpecRunFair == InitRunFair /\ [][NextRun]_vars /\ WF_vars(NextRun)

----------------------------------------------------------------------------
(* The executor's specification over the pool: a universe without local    *)
(* files has been planned.                                                  *)
(* Either target_codes names the first code again, chunk_size places       *)
(* later (_get_watchlist_stocks keeps every entry, lines 207-209), and     *)
(* upstream has no rows for that code and refuses the others; or the       *)
(* universe is three chunks of refused codes and one more code, for which  *)
(* upstream answers one row.                                                *)

InitPool ==
    /\ now = [date |-> StoreDay, hour |-> DATA_READY_HOUR]
    /\ ticks = 0
    /\ \/ /\ all_stocks = [i \in 1..(chunk_size + 1) |-> IF i = chunk_size + 1 THEN 1 ELSE i]
          /\ offer = Outage(<<>>, 2..chunk_size, MAX_ATTEMPTS)
       \/ /\ all_stocks = [i \in 1..(3 * chunk_size + 1) |-> i]
          /\ offer = Outage(<<[date |-> StoreDay, close |-> "2"]>>, 1..(3 * chunk_size),
                            MAX_ATTEMPTS)
    /\ files = [c \in Range(all_stocks) |-> NoFile]
    /\ results = [i \in DOMAIN all_stocks |->
                     Result(all_stocks[i], TRUE, DateStr(DEFAULT_START_DATE), "w")]
    /\ checked_at = [i \in DOMAIN all_stocks |-> now]
    /\ tasks_to_run = results
    /\ skipped_count = 0
    /\ run_pc = "planned"
    /\ InitWorkers
    /\ call_budget = 0
    /\ fault_budget = 0

NextPool ==
    \/ StartRound
    \/ \E w \in Slots : Dispatch(w)
    \/ \E w \in Slots : LoginOk(w)
    \/ \E w \in Slots : QueryRefused(w)
    \/ \E w \in Slots : QueryServed(w)
    \/ \E w \in Slots : OpenFile(w)
    \/ \E w \in Slots : WriteNext(w)
    \/ \E w \in Slots : TaskDone(w)
    \/ \E w \in Slots : Logout(w)
    \/ \E w \in Slots : WorkerReturn(w)
    \/ Receive
    \/ EndRound

SpecPool == InitPool /\ [][NextPool]_vars

----------------------------------------------------------------------------
(* The planner's specification: a store left by earlier runs, any clock *)

InitFiles ==
    {NoFile, EmptyFile, CsvFile(<<>>)}
        \cup {CsvFile(SeriesEnding(d, n)) : d \in Dates, n \in 1..MaxInitRows}
        \cup {CsvFile(SeriesEnding(DEFAULT_START_DATE, 1))}

PlanCodes == {1, 2}

InitPlan ==
    /\ now \in [date : Dates, hour : {16, 23}]
    /\ ticks = 0
    /\ all_stocks = <<1, 2>>
    /\ files \in [PlanCodes -> InitFiles]
    /\ results = [i \in 1..2 |-> Pending]
    /\ checked_at = [i \in 1..2 |-> now]
    /\ tasks_to_run = <<>>
    /\ skipped_count = 0
    /\ run_pc = "precheck"
    /\ InitWorkers
    /\ call_budget = 0
    /\ fault_budget = 0
    /\ offer = SameRows(<<>>)

NextPlan ==
    \/ Tick
    \/ \E i \in 1..2 : CheckStatus(i)
    \/ Collect

SpecPlan == InitPlan /\ [][NextPlan]_vars

----------------------------------------------------------------------------
(* One symbol from the pre-check to the queries of its task: run on a      *)
(* store left by earlier runs, upstream without new rows or failing        *)

InitSync ==
    /\ now \in [date : Dates, hour : {16, 23}]
    /\ ticks = 0
    /\ all_stocks = <<1>>
    /\ files \in [{1} -> InitFiles]
    /\ results = <<Pending>>
    /\ checked_at = <<now>>
    /\ tasks_to_run = <<>>
    /\ skipped_count = 0
    /\ run_pc = "precheck"
    /\ InitWorkers
    /\ call_budget = 0
    /\ fault_budget = 0
    /\ offer = SameRows(<<>>)

NextSync ==
    \/ Tick
    \/ CheckStatus(1)
    \/ Collect
    \/ StartRound
    \/ \E w \in Slots : Dispatch(w)
    \/ \E w \in Slots : LoginOk(w)
    \/ \E w \in Slots : LoginFails(w)
    \/ \E w \in Slots : FetchFails(w)
    \/ \E w \in Slots : \E data_list \in Responses : FetchRows(w, data_list)
    \/ \E w \in Slots : Logout(w)
    \/ \E w \in Slots : WorkerReturn(w)
    \/ Receive
    \/ EndRound

SpecSync == InitSync /\ [][NextSync]_vars

----------------------------------------------------------------------------
(* FeatureEngine and StrategyFilter: TechnicalAnalyzer._process_one_stock   *)
(*                                                                         *)
(* Prices and volumes are integers; a quotient is kept as an exact         *)
(* fraction, NaN is a value of its own, and round(x, k) is the integer     *)
(* x * 10^k rounded half to even. Labels are written in English.           *)

NaN == [nan |-> TRUE, num |-> 0, den |-> 1]
Rat(n, d) == [nan |-> FALSE, num |-> n, den |-> d]

\* a > b and a < b on floats: every comparison with NaN is false
GT(a, b) == ~a.nan /\ ~b.nan /\ a.num * b.den > b.num * a.den
LT(a, b) == ~a.nan /\ ~b.nan /\ a.num * b.den < b.num * a.den

\* n / d rounded to the nearest integer, ties to the even one (d > 0)
RoundHalfEven(n, d) ==
    LET f == n \div d
        r == n - f * d
    IN  IF 2 * r < d THEN f
        ELSE IF 2 * r > d THEN f + 1
        ELSE IF f % 2 = 0 THEN f ELSE f + 1

\* round of the fraction x, as a count of the scale-th parts of one:
\* round(x * 100, 2) is Round(x, 10000), round(x * 100, 1) is Round(x, 1000)
\* and round(x, 2) is Round(x, 100)
Round(x, scale) == RoundHalfEven(x.num * scale, x.den)

\* pd.to_datetime on a YYYY-MM-DD text: the day number, 2024-01-01 being 0
RECURSIVE DaysBefore(_, _)
DaysBefore(y, m) == IF m = 1 THEN 0 ELSE DaysBefore(y, m - 1) + DaysIn(y, m - 1)

RECURSIVE DaysBeforeYear(_)
DaysBeforeYear(y) ==
    IF y = 2024 THEN 0
    ELSE IF y > 2024
    THEN DaysBeforeYear(y - 1) + (IF Leap(y - 1) THEN 366 ELSE 365)
    ELSE DaysBeforeYear(y + 1) - (IF Leap(y) THEN 366 ELSE 365)

ToDatetime(d) == DaysBeforeYear(d[1]) + DaysBefore(d[1], d[2]) + d[3] - 1

\* strftime("%Y-%m-%d") of a day number
Strftime(t) ==
    LET y == CHOOSE y \in 2024..2026 :
                 DaysBeforeYear(y) <= t /\ t < DaysBeforeYear(y + 1)
        r == t - DaysBeforeYear(y)
        m == CHOOSE m \in 1..12 :
                 DaysBefore(y, m) <= r /\ r < DaysBefore(y, m) + DaysIn(y, m)
    IN  <<y, m, r - DaysBefore(y, m) + 1>>

\* df.iloc[j]
Iloc(df, j) == df[j + 1]

\* the sum of a column over the rows lo..hi
RECURSIVE SumOf(_, _, _, _)
SumOf(df, col, lo, hi) ==
    IF lo > hi THEN 0
    ELSE IF lo = hi THEN Iloc(df, lo)[col]
    ELSE LET mid == (lo + hi) \div 2
         IN  SumOf(df, col, lo, mid) + SumOf(df, col, mid + 1, hi)

\* mutant: a centred average, which reads the row after row j
sma_centred(df, col, length, j) ==
    LET hi == Min(j + 1, Len(df) - 1)
    IN  IF hi + 1 < length THEN NaN
        ELSE Rat(SumOf(df, col, hi - length + 1, hi), length)

\* ta.sma(df[col], length) at row j: the mean of the last length rows, NaN
\* while fewer rows exist
sma(df, col, length, j) ==
    IF j + 1 < length THEN NaN
    ELSE Rat(SumOf(df, col, j - length + 1, j), length)

MaxOf(S) == CHOOSE x \in S : \A y \in S : y <= x
MinOf(S) == CHOOSE x \in S : \A y \in S : x <= y

\* ta.macd, ta.kdj and ta.rsi are functions of the rows up to the row they
\* are computed for. lib gives their values: one set of values on the rows
\* up to lib.mark, another on the rows after it.
LibAt(lib, j) == IF j <= lib.mark THEN lib.upto ELSE lib.after

\* _get_ma_state
get_ma_state(close, ma5, ma20, ma60) ==
    IF ma60.nan THEN "insufficient data"
    ELSE IF GT(ma5, ma20) /\ GT(ma20, ma60) THEN "bullish alignment"
    ELSE IF LT(ma5, ma20) /\ LT(ma20, ma60) THEN "bearish alignment"
    ELSE IF GT(close, ma60) /\ GT(ma5, ma20) THEN "rebound"
    ELSE "consolidation"

NoResult == [ok |-> FALSE]

\* if len(df) < 60: return None
MinRows == 60
\* if idx < 60: return None
MinIndex == 60

\* the rows of past_data = df[df['date'] <= target_dt]
PastData(df, bt_date) ==
    {j \in 0..(Len(df) - 1) : ToDatetime(Iloc(df, j).date) <= ToDatetime(bt_date.ymd)}

\* mutant: a return beyond the last row is taken at the last row
ForwardReturnToLastRow(future_df, buy_price, k) ==
    IF Len(future_df) >= k
    THEN Round(Rat(future_df[k].close - buy_price, buy_price), 10000)
    ELSE Round(Rat(future_df[Len(future_df)].close - buy_price, buy_price), 10000)

\* lines 219-224: the return at the k-th row after the evaluation row
ForwardReturn(future_df, buy_price, k) ==
    IF Len(future_df) >= k
    THEN Round(Rat(future_df[k].close - buy_price, buy_price), 10000)
    ELSE 0

\* lines 207-224: the returns of a backtest
Forward(df, idx, buy_price) ==
    LET future_df == SubSeq(df, idx + 2, Len(df))
        head30 == SubSeq(future_df, 1, Min(30, Len(future_df)))
    IN  IF Len(future_df) > 0
        THEN [present |-> TRUE,
              max_gain |-> Round(Rat(MaxOf({head30[i].high : i \in DOMAIN head30})
                                            - buy_price, buy_price), 10000),
              t5 |-> ForwardReturn(future_df, buy_price, 5),
              t10 |-> ForwardReturn(future_df, buy_price, 10),
              t30 |-> ForwardReturn(future_df, buy_price, 30)]
        ELSE [present |-> TRUE, max_gain |-> 0, t5 |-> 0, t10 |-> 0, t30 |-> 0]

NoForward == [present |-> FALSE, max_gain |-> 0, t5 |-> 0, t10 |-> 0, t30 |-> 0]

\* past_data.index[-1]: the last row of df that is in past_data
LastOf(df, past_data) ==
    CHOOSE j \in past_data : \A i \in (j + 1)..(Len(df) - 1) : i \notin past_data

\* mutant: the evaluation row of a backtest may be any row
EvaluationIndexAnyRow(df, mode, bt_date) ==
    IF mode = "backtest" /\ bt_date.tag # "none"
    THEN LET past_data == PastData(df, bt_date)
         IN  IF past_data = {} THEN -1 ELSE LastOf(df, past_data)
    ELSE Len(df) - 1

\* lines 102-111: the row the analysis is made for, -1 when there is none
EvaluationIndex(df, mode, bt_date) ==
    IF mode = "backtest" /\ bt_date.tag # "none"
    THEN LET past_data == PastData(df, bt_date)
         IN  IF past_data = {} THEN -1
             ELSE LET idx == LastOf(df, past_data)
                  IN  IF idx < MinIndex THEN -1 ELSE idx
    ELSE Len(df) - 1

\* curr = df.iloc[idx], with the columns lines 74-100 have added
Curr(df, idx, lib) ==
    LET row == Iloc(df, idx)
        ind == LibAt(lib, idx)
    IN  [date |-> ToDatetime(row.date),
         close |-> row.close, high |-> row.high, low |-> row.low,
         volume |-> row.volume,
         MA5 |-> sma(df, "close", 5, idx),
         MA20 |-> sma(df, "close", 20, idx),
         MA60 |-> sma(df, "close", 60, idx),
         MA250 |-> sma(df, "close", 250, idx),
         DIF |-> ind.DIF, DEA |-> ind.DEA, K |-> ind.K, D |-> ind.D,
         RSI |-> ind.RSI,
         VOL_MA5 |-> sma(df, "volume", 5, idx)]

\* vol_ratio, lines 150-152, in hundredths
VolRatio(curr) ==
    IF ~curr.VOL_MA5.nan /\ curr.VOL_MA5.num > 0
    THEN Round(Rat(curr.volume * curr.VOL_MA5.den, curr.VOL_MA5.num), 100)
    ELSE 0

MacdState(curr) == IF curr.DIF > curr.DEA THEN "golden cross" ELSE "death cross"
KdjState(curr) == IF curr.K > curr.D THEN "golden cross" ELSE "death cross"

\* mutant: the volume is no match reason
MatchReasonNoVolume(curr) ==
    (IF GT(Rat(curr.close, 1), curr.MA20) THEN <<"above monthly line">> ELSE <<>>)
    \o (IF MacdState(curr) = "golden cross" THEN <<"MACD golden cross">> ELSE <<>>)

\* match_reason, lines 167-170
MatchReason(curr) ==
    (IF GT(Rat(curr.close, 1), curr.MA20) THEN <<"above monthly line">> ELSE <<>>)
    \o (IF MacdState(curr) = "golden cross" THEN <<"MACD golden cross">> ELSE <<>>)
    \o (IF VolRatio(curr) > 150 THEN <<"volume surge">> ELSE <<>>)

\* lines 116-226: the features of row idx, the filter, the result; the text
\* "+".join(match_reason) is kept as the sequence of its parts
Snapshot(df, idx, code, is_vip, mode, lib) ==
    LET curr == Curr(df, idx, lib)
        close == Rat(curr.close, 1)
        ma_state == get_ma_state(close, curr.MA5, curr.MA20, curr.MA60)
        year_line_dist ==
            IF curr.MA250.nan THEN 0
            ELSE Round(Rat(curr.close * curr.MA250.den - curr.MA250.num,
                               curr.MA250.num), 1000)
        year_line_state ==
            IF curr.MA250.nan THEN "no data"
            ELSE IF GT(close, curr.MA250) THEN "above year line"
            ELSE "below year line"
        macd_state == MacdState(curr)
        kdj_state == KdjState(curr)
        start_idx == IF idx - 30 > 0 THEN idx - 30 ELSE 0
        high_30d == MaxOf({Iloc(df, j).high : j \in start_idx..idx})
        low_30d == MinOf({Iloc(df, j).low : j \in start_idx..idx})
        pressure_dist == Round(Rat(high_30d - curr.close, curr.close), 1000)
        support_dist == Round(Rat(curr.close - low_30d, curr.close), 1000)
        vol_ratio == VolRatio(curr)
        vol_state == IF vol_ratio > 120 THEN "volume surge" ELSE "volume contraction"
        cond1 == GT(close, curr.MA20)
        cond2 == macd_state = "golden cross" \/ kdj_state = "golden cross"
        strategy_pass == cond1 \/ cond2
        match_reason == MatchReason(curr)
        match_str == IF match_reason # <<>> THEN match_reason
                     ELSE <<"watchlist observation">>
    IN  IF ~strategy_pass /\ ~is_vip THEN NoResult
        ELSE [ok |-> TRUE,
              code |-> code,
              date |-> DateStr(Strftime(curr.date)),
              buy_price |-> curr.close,
              RSI |-> curr.RSI,
              vol_ratio |-> vol_ratio,
              ma_state |-> ma_state,
              year_line_state |-> year_line_state,
              year_line_dist |-> year_line_dist,
              macd_state |-> macd_state,
              kdj_state |-> kdj_state,
              vol_state |-> vol_state,
              high_30d |-> high_30d,
              low_30d |-> low_30d,
              pressure_dist |-> pressure_dist,
              support_dist |-> support_dist,
              trend |-> [i \in 1..5 |-> Iloc(df, idx - 5 + i).close],
              match_str |-> match_str,
              is_watchlist |-> is_vip,
              forward |-> IF mode = "backtest"
                          THEN Forward(df, idx, curr.close) ELSE NoForward]

\* _process_one_stock(args), args = (file_path, watchlist_set, mode, scope,
\* bt_date): None on too short a series, on a symbol outside the scope, on
\* too early an evaluation row, on a filtered symbol and on any exception
process_one_stock(f, args, lib) ==
    IF ~f.exists \/ SizeBelow50(f) THEN NoResult
    ELSE LET df == f.rows
             is_vip == args.code \in args.watchlist_set
             idx == EvaluationIndex(df, args.mode, args.bt_date)
         IN  IF Len(df) < MinRows THEN NoResult
             ELSE IF args.scope = "watchlist_only" /\ ~is_vip THEN NoResult
             ELSE IF idx < 0 THEN NoResult
             ELSE Snapshot(df, idx, args.code, is_vip, args.mode, lib)

\* one task of run_analysis
Analyze ==
    /\ az.pc = "ready"
    /\ az' = [az EXCEPT !.pc = "done",
                        !.res = process_one_stock(files[az.args.code], az.args, az.lib)]
    /\ UNCHANGED <<now, ticks, files, planVars, wkVars, execVars>>

----------------------------------------------------------------------------
(* The feature engine's specification: one call of _process_one_stock on a *)
(* series built around a marked row                                        *)

\* rows after the marked row, at most
MaxAfter == 31
\* the marked row of a series long enough for the year line
LongMark == 250

\* the date of row j: five trading days a week
TradingDay(j) == Strftime(j + 2 * (j \div 5))

\* closes: flat, rising or falling by one a row
CloseAt(pattern, j) ==
    IF pattern = "flat" THEN 100
    ELSE IF pattern = "rising" THEN 100 + j
    ELSE 400 - j

\* volumes: none, flat, or 1.4 or 2 times the others on the marked row
VolumeAt(pattern, mark, j) ==
    IF pattern = "none" THEN 0
    ELSE IF j # mark \/ pattern = "flat" THEN 100
    ELSE IF pattern = "mild" THEN 140
    ELSE 200

\* a series of mark + 1 + after rows
Frame(mark, after, closes, volumes) ==
    [i \in 1..(mark + 1 + after) |->
        [date |-> TradingDay(i - 1),
         close |-> CloseAt(closes, i - 1),
         high |-> CloseAt(closes, i - 1) + 2,
         low |-> CloseAt(closes, i - 1) - 1,
         volume |-> VolumeAt(volumes, mark, i - 1)]]

\* the library's values up to the marked row, and other values after it
Lib(mark, macd, kdj) ==
    [mark |-> mark,
     upto |-> [DIF |-> macd[1], DEA |-> macd[2], K |-> kdj[1], D |-> kdj[2],
               RSI |-> 5000],
     after |-> [DIF |-> macd[2], DEA |-> macd[1], K |-> kdj[2], D |-> kdj[1],
                RSI |-> 7000]]

\* current analyses of either scope, backtests of the whole market without
\* a date, at the marked row's date, the day after it and the day before
\* the first row
AnalyzerArgs(mark) ==
    [code : {1}, watchlist_set : {{}, {1}}, mode : {"current"},
     scope : {"all", "watchlist_only"}, bt_date : {None}]
    \cup
    [code : {1}, watchlist_set : {{}, {1}}, mode : {"backtest"},
     scope : {"all"},
     bt_date : {None, DateStr(TradingDay(mark)),
                DateStr(NextDay(TradingDay(mark))), DateStr(PrevDay(TradingDay(0)))}]

InitAnalyze ==
    /\ now = [date |-> StoreDay, hour |-> DATA_READY_HOUR]
    /\ ticks = 0
    /\ all_stocks = <<1>>
    /\ results = <<>>
    /\ checked_at = <<>>
    /\ tasks_to_run = <<>>
    /\ skipped_count = 0
    /\ run_pc = "idle"
    /\ IdlePool
    /\ call_budget = 0
    /\ fault_budget = 0
    /\ offer = SameRows(<<>>)
    /\ \E mark \in {MinRows - 2, MinRows - 1, MinIndex, MinIndex + 1, LongMark} :
          /\ \/ \E after \in {0, 4, 5, 9, 10, 29, 30, MaxAfter},
                    closes \in {"flat", "rising", "falling"},
                    volumes \in {"flat", "mild", "surge", "none"} :
                    /\ mark = LongMark => (after = MaxAfter /\ volumes = "flat")
                    /\ files = [c \in {1} |-> CsvFile(Frame(mark, after, closes, volumes))]
             \/ files \in [{1} -> {NoFile, EmptyFile, CsvFile(<<>>)}]
          \* the two lines of MACD and of KDJ: golden cross, death cross, equal
          /\ \E args \in AnalyzerArgs(mark),
                macd \in {<<1, 0>>, <<0, 1>>, <<0, 0>>},
                kdj \in {<<1, 0>>, <<0, 1>>, <<0, 0>>} :
                az = [pc |-> "ready", args |-> args, lib |-> Lib(mark, macd, kdj),
                      res |-> NoResult]

NextAnalyze == Analyze

SpecAnalyze == InitAnalyze /\ [][NextAnalyze]_vars

----------------------------------------------------------------------------
(* Properties of the planner *)

Checked(i) == i \in DOMAIN results /\ results[i].mode # "pending"

\* the file the i-th pre-check looked at holds a series with a last row
HasSeries(i) == files[all_stocks[i]].exists /\ files[all_stocks[i]].rows # <<>>

LastRowDate(i) ==
    LET rows == files[all_stocks[i]].rows IN rows[Len(rows)].date

InTasks(item) == \E k \in DOMAIN tasks_to_run : tasks_to_run[k].item = item

\* C8: for a symbol whose last stored date is yesterday, the pre-check emits
\* no fetch when its hour is before DATA_READY_HOUR, and otherwise an
\* incremental task that starts the day after the last stored date.
C8_CutoffRule ==
    \A i \in DOMAIN results :
        (Checked(i) /\ HasSeries(i)
            /\ NextDay(LastRowDate(i)) = checked_at[i].date) =>
        IF checked_at[i].hour < DATA_READY_HOUR
        THEN ~results[i].need_dl
        ELSE /\ results[i].need_dl
             /\ results[i].mode = "a"
             /\ results[i].start.tag = "date"
             /\ results[i].start.ymd = checked_at[i].date

\* both branches of the cutoff rule have been taken in one pre-check
C8_Witness ==
    \E i, j \in DOMAIN results :
        /\ Checked(i) /\ HasSeries(i) /\ Checked(j) /\ HasSeries(j)
        /\ NextDay(LastRowDate(i)) = checked_at[i].date
        /\ NextDay(LastRowDate(j)) = checked_at[j].date
        /\ checked_at[i].hour = DATA_READY_HOUR - 1 /\ ~results[i].need_dl
        /\ checked_at[j].hour = DATA_READY_HOUR /\ results[j].mode = "a"

\* C9: a symbol with no series file gets a full task from DEFAULT_START_DATE,
\* and no symbol whose file has a readable last date gets a full task.
C9_FullTaskOnlyWithoutSeries ==
    \A i \in DOMAIN results : Checked(i) =>
        /\ ~files[all_stocks[i]].exists =>
               results[i] = Result(all_stocks[i], TRUE, DateStr(DEFAULT_START_DATE), "w")
        /\ HasSeries(i) => results[i].mode # "w"

C9_Witness ==
    \E i, j \in DOMAIN results :
        /\ Checked(i) /\ ~files[all_stocks[i]].exists /\ results[i].mode = "w"
        /\ Checked(j) /\ HasSeries(j) /\ results[j].mode = "a"
        /\ run_pc = "planned"

\* C10: a symbol whose last stored date is today or later gets no fetch, no
\* start date and no mode, and is not among the planned tasks.
C10_CurrentSymbolSkipped ==
    \A i \in DOMAIN results :
        (Checked(i) /\ HasSeries(i) /\ DateLE(checked_at[i].date, LastRowDate(i))) =>
        /\ results[i] = Result(all_stocks[i], FALSE, None, "none")
        /\ ~InTasks(all_stocks[i])

C10_Witness ==
    \E i \in DOMAIN results :
        /\ Checked(i) /\ HasSeries(i) /\ DateLE(checked_at[i].date, LastRowDate(i))
        /\ run_pc = "planned"
        /\ skipped_count = 1

\* the i-th pre-check saw a series that ends before its today and is not
\* held back by the cutoff rule
Behind(i) ==
    /\ Checked(i)
    /\ HasSeries(i)
    /\ DateLT(LastRowDate(i), checked_at[i].date)
    /\ ~(NextDay(LastRowDate(i)) = checked_at[i].date
            /\ checked_at[i].hour < DATA_READY_HOUR)

\* C11: for a symbol whose series ends before today and that the cutoff rule
\* does not hold back, the pre-check emits an incremental task (mode 'a')
\* that starts exactly one day after the last stored date and not after
\* today, and every query a worker issues for the symbol asks for the window
\* from that start date through the worker's today, which is not before the
\* pre-check's today.
C11_IncrementalWindow ==
    \A i \in DOMAIN results : Behind(i) =>
        /\ results[i] = Result(all_stocks[i], TRUE, DateStr(NextDay(LastRowDate(i))), "a")
        /\ DateLE(results[i].start.ymd, checked_at[i].date)
        /\ \A w \in Slots :
              (wk[w].pc = "fetch" /\ CurCode(wk[w]) = all_stocks[i]) =>
                  /\ CurTask(wk[w]) = results[i]
                  /\ Query(wk[w]).start_date = DateStr(NextDay(LastRowDate(i)))
                  /\ DateLE(checked_at[i].date, Query(wk[w]).end_date.ymd)
                  /\ DateLE(Query(wk[w]).end_date.ymd, now.date)

\* a worker is about to query a window of several days for a series that is
\* more than one day behind, in a call that began the day after the pre-check
C11_Witness ==
    \E i \in DOMAIN results : \E w \in Slots :
        /\ Behind(i)
        /\ wk[w].pc = "fetch"
        /\ CurCode(wk[w]) = all_stocks[i]
        /\ DateLT(Query(wk[w]).start_date.ymd, checked_at[i].date)
        /\ wk[w].today = NextDay(checked_at[i].date)

----------------------------------------------------------------------------
(* Properties of the store *)

\* the last row of the frame with date d: what keep='last' retains
LastOn(rows, d) ==
    rows[CHOOSE i \in 1..Len(rows) :
            rows[i].date = d /\ \A j \in (i + 1)..Len(rows) : rows[j].date # d]

\* the worker has finished an append-merge of its task, untouched by an error
MergedNow(w) == wk[w].pc = "written" /\ wk[w].in_merge

\* C2: after an append-merge the file holds exactly one record per date of
\* the existing series and the incoming batch, and on every date of the
\* batch the record is the incoming one.
C2_MergeKeepsIncoming ==
    \A w \in Slots : MergedNow(w) =>
        LET old == wk[w].pre.rows
            new == wk[w].new_df
            out == files[CurCode(wk[w])].rows
        IN  /\ SeqToSetOfDates(out) = SeqToSetOfDates(old) \cup SeqToSetOfDates(new)
            /\ \A i, j \in 1..Len(out) : i # j => out[i].date # out[j].date
            /\ \A i \in 1..Len(out) :
                  IF out[i].date \in SeqToSetOfDates(new)
                  THEN out[i] = LastOn(new, out[i].date)
                  ELSE out[i] \in Range(old)

\* a merge has replaced a stored record by an incoming one of another price
C2_Witness ==
    \E w \in Slots :
        /\ MergedNow(w)
        /\ \E i \in 1..Len(wk[w].pre.rows) : \E j \in 1..Len(wk[w].new_df) :
              /\ wk[w].pre.rows[i].date = wk[w].new_df[j].date
              /\ wk[w].pre.rows[i].close # wk[w].new_df[j].close
        /\ \E i \in 1..Len(wk[w].pre.rows) :
              wk[w].pre.rows[i].date \notin SeqToSetOfDates(wk[w].new_df)

\* the file was last written by an append-merge of the rows upstream answers
\* with, and the worker has now merged the same rows into it again
MergedAgain(w) ==
    /\ MergedNow(w)
    /\ ~offer.free
    /\ last_merge.valid
    /\ last_merge.code = CurCode(wk[w])

\* C3: append-merging a batch into a series that an append-merge of the same
\* batch produced leaves the file as it was: same records, same order.
C3_MergeIdempotent ==
    \A w \in Slots : MergedAgain(w) => files[CurCode(wk[w])] = wk[w].pre

\* the second merge of a batch of two rows into a series with older rows
C3_Witness ==
    \E w \in Slots :
        /\ MergedAgain(w)
        /\ Len(wk[w].new_df) = 2
        /\ Len(files[CurCode(wk[w])].rows) > Len(wk[w].new_df)

\* C4 as claimed: after successful store writes with any incoming batches,
\* the stored series is sorted ascending by date with unique dates.
C4_SortedUniqueForAnyBatch ==
    \A w \in Slots :
        (wk[w].pc = "written" /\ fault_budget = MaxFaults) =>
            SortedUnique(files[CurCode(wk[w])].rows)

\* C4 amended: while every incoming batch is itself sorted ascending by
\* date with unique dates, every stored series is sorted with unique dates.
C4_SortedUniqueForSortedBatches ==
    ~dirty => \A c \in DOMAIN files : SortedUnique(files[c].rows)

\* the second successful write of a behaviour, an append-merge onto rows
C4_Witness ==
    \E w \in Slots :
        /\ MergedNow(w)
        /\ ~dirty
        /\ call_budget = MaxCalls - 2
        /\ fault_budget = MaxFaults
        /\ Len(files[CurCode(wk[w])].rows) >= 2

\* C5: when a step of the merge of a task has failed, the file is what it
\* was before the task touched it.
C5_FailedMergeLeavesFileIntact ==
    \A w \in Slots :
        wk[w].io_failed => files[CurCode(wk[w])] = wk[w].pre

\* C6: a task whose store write hit an I/O failure is not reported in the
\* success list of its chunk.
C6_IoFailedTaskNotSucceeded ==
    \A w \in Slots :
        \A c \in wk[w].io_failed_items : c \notin Range(wk[w].success)

\* C7: a reader of a series file during a merge sees the series as it was
\* before the merge or as it is after it, never a part of it.
C7_ReaderSeesWholeSeries ==
    read_view.during = "merge" => read_view.kind = "whole"

----------------------------------------------------------------------------
(* Properties of the executor *)

\* C1 as claimed: with every chunk failing, any non-empty plan ends with the
\* circuit breaker tripped before MAX_ATTEMPTS rounds have been executed.
C1_AnyPlanAborts ==
    (run_pc = "done" /\ tasks_to_run # <<>>) => (abort /\ attempt < MAX_ATTEMPTS)

\* C1 amended: with every chunk failing, a plan of at least ABORT_THRESHOLD
\* tasks is aborted in its first round, and the loop never goes on with a
\* count at the threshold; a smaller plan runs all MAX_ATTEMPTS rounds
\* without tripping the breaker, whose count restarts every round.
C1_LargePlanAborts ==
    /\ run_pc = "round" => consecutive_fail < ABORT_THRESHOLD
    /\ run_pc = "done" =>
          IF Len(tasks_to_run) >= ABORT_THRESHOLD
          THEN abort /\ attempt = 1 /\ consecutive_fail >= ABORT_THRESHOLD
          ELSE ~abort /\ attempt = MAX_ATTEMPTS

\* the breaker has tripped exactly at the threshold, on the last chunk result
C1_Witness ==
    /\ run_pc = "done"
    /\ abort
    /\ Len(tasks_to_run) = ABORT_THRESHOLD
    /\ consecutive_fail = ABORT_THRESHOLD

\* the codes of a sequence of tasks
CodesOf(task_list) == {task_list[i].item : i \in DOMAIN task_list}

\* the tasks of the round that no pool process has taken yet
ChunkCodes == UNION {CodesOf(chunks[i]) : i \in DOMAIN chunks}

RECURSIVE TasksIn(_)
TasksIn(chunk_list) ==
    IF chunk_list = <<>> THEN 0 ELSE Len(Head(chunk_list)) + TasksIn(Tail(chunk_list))

\* C12: the tasks a round hands to the pool are exactly the planned tasks
\* whose code is not in finished_codes, each once; no pool process holds a
\* task whose code is in finished_codes, and none queries a code that an
\* earlier call of download_worker reported succeeded.
C12_OnlyUnfinishedDispatched ==
    /\ [](\A w \in Slots :
            /\ CodesOf(wk[w].tasks) \cap finished_codes = {}
            /\ wk[w].pc = "fetch" => CurCode(wk[w]) \notin served)
    /\ [][(run_pc # "round" /\ run_pc' = "round") =>
            /\ ChunkCodes' = CodesOf(tasks_to_run) \ finished_codes
            /\ TasksIn(chunks') = Cardinality(ChunkCodes')]_vars

\* the second round queries a task while tasks of the first round are finished
C12_Witness ==
    /\ attempt = 2
    /\ finished_codes # {}
    /\ finished_codes = served
    /\ \E w \in Slots : wk[w].pc = "fetch"

\* C13: the run ends, it never starts a round beyond MAX_ATTEMPTS, and when
\* it has ended every planned task has been reported succeeded, or
\* MAX_ATTEMPTS rounds have been executed, or the circuit breaker has tripped.
C13_RunTerminates ==
    /\ [](attempt <= MAX_ATTEMPTS)
    /\ <>(run_pc = "done")
    /\ [](run_pc = "done" =>
            \/ CodesOf(tasks_to_run) \subseteq served
            \/ attempt = MAX_ATTEMPTS
            \/ abort)

\* the run has ended after MAX_ATTEMPTS rounds with some tasks succeeded,
\* others not, and the breaker not tripped
C13_Witness ==
    /\ run_pc = "done"
    /\ attempt = MAX_ATTEMPTS
    /\ ~abort
    /\ served # {}
    /\ ~(CodesOf(tasks_to_run) \subseteq served)

\* run takes the next chunk result from imap_unordered
Received == outbox # <<>> /\ Len(outbox') < Len(outbox)

\* C14: the failure count changes only when a round starts (to zero) or a
\* chunk result is received: a result with a success sets it to zero, a
\* result without adds its failed tasks; the run aborts on the result that
\* brings the count to ABORT_THRESHOLD or above and on no other, and once
\* aborted it processes no chunk result and starts no round.
C14_BreakerRule ==
    /\ [](run_pc = "round" => ~abort /\ consecutive_fail < ABORT_THRESHOLD)
    /\ [](abort => /\ run_pc = "done"
                   /\ consecutive_fail >= ABORT_THRESHOLD
                   /\ \A w \in Slots : wk[w].pc = "idle")
    /\ [][~abort]_vars
    /\ [][Received =>
            /\ consecutive_fail' =
                  IF Head(outbox).success # <<>> THEN 0
                  ELSE consecutive_fail + Len(Head(outbox).failed)
            /\ abort' = (consecutive_fail' >= ABORT_THRESHOLD)]_vars
    /\ [][consecutive_fail' # consecutive_fail =>
            Received \/ (run_pc # "round" /\ consecutive_fail' = 0)]_vars

\* the breaker has tripped in a round in which a chunk result with a success
\* had reset the count
C14_Witness ==
    /\ abort
    /\ attempt = 1
    /\ finished_codes # {}
    /\ consecutive_fail = ABORT_THRESHOLD

----------------------------------------------------------------------------
(* Properties of one call of download_worker *)

\* upstream has no rows for any query of the behaviour
NoNewRows == ~offer.free /\ offer.rows = <<>>

\* C15: when a query is answered with status zero and no rows, the task is
\* appended to the success list of its chunk and no series file changes: none
\* is created, rewritten or truncated, in that step or in any other step of
\* a behaviour where upstream has no rows.
C15_EmptyAnswerSucceeds ==
    /\ [][NoNewRows => files' = files]_vars
    /\ [][\A w \in Slots :
              (/\ NoNewRows
               /\ wk[w].pc = "fetch"
               /\ wk'[w] # wk[w]
               /\ CurCode(wk[w]) \notin Range(wk'[w].failed)) =>
              /\ wk'[w].success = Append(wk[w].success, CurCode(wk[w]))
              /\ wk'[w].failed = wk[w].failed
              /\ wk'[w].pc \in {"fetch", "logout"}]_vars

\* a second incremental task on a stored series has succeeded with no rows
C15_Witness ==
    /\ NoNewRows
    /\ call_budget = 0
    /\ files[1].rows # <<>>
    /\ \E w \in Slots :
          /\ wk[w].pc = "logout"
          /\ wk[w].success = <<1>>
          /\ wk[w].tasks[1].mode = "a"

\* C20: a call of download_worker whose login fails returns at once with an
\* empty success list and every task of its chunk, in order, in the failed
\* list; no series file changes, and a call issues queries only with a
\* session: after a failed login none for any task of the chunk.
C20_LoginFailureFailsChunk ==
    /\ [][\A w \in Slots :
              (/\ wk[w].pc = "login"
               /\ wk'[w].pc \notin {"login", "idle"}
               /\ ~wk'[w].logged_in) =>
              /\ wk'[w].pc = "returned"
              /\ wk'[w].success = <<>>
              /\ wk'[w].failed = [i \in 1..Len(wk[w].tasks) |-> wk[w].tasks[i].item]
              /\ wk'[w].k = 0
              /\ files' = files]_vars
    /\ [](\A w \in Slots : wk[w].pc = "fetch" => wk[w].logged_in)

\* a chunk of chunk_size tasks has come back from a failed login
C20_Witness ==
    \E w \in Slots :
        /\ wk[w].pc = "returned"
        /\ ~wk[w].logged_in
        /\ wk[w].k = 0
        /\ wk[w].success = <<>>
        /\ Len(wk[w].failed) = chunk_size

----------------------------------------------------------------------------
(* Properties of the feature engine *)

Analyzed == az.pc = "done"

\* the series the call was made on
Series == files[az.args.code].rows

OnWatchlist == az.args.code \in az.args.watchlist_set

Backtesting == az.args.mode = "backtest" /\ az.args.bt_date.tag = "date"

\* the evaluation index: the last row dated on or before the backtest date,
\* by the order of the date texts, -1 when no row is (the rows are in the
\* order of their dates); the last row without a backtest date
EvalRow ==
    LET OnOrBefore(j) == DateLE(Iloc(Series, j).date, az.args.bt_date.ymd)
    IN  IF ~Backtesting THEN Len(Series) - 1
        ELSE IF Len(Series) = 0 \/ ~OnOrBefore(0) THEN -1
        ELSE CHOOSE j \in 0..(Len(Series) - 1) :
                 OnOrBefore(j) /\ (j + 1 < Len(Series) => ~OnOrBefore(j + 1))

\* C16: a call on a series of fewer than 60 rows returns no result, in
\* either mode, and a backtest whose evaluation index is below 60 returns
\* no result.
C16_InsufficientHistory ==
    Analyzed =>
        /\ Len(Series) < 60 => ~az.res.ok
        /\ (Backtesting /\ EvalRow < 60) => ~az.res.ok

\* a backtest of a watchlist symbol, with rows after the backtest date, whose
\* evaluation index is 59
C16_Witness ==
    /\ Analyzed
    /\ Backtesting
    /\ EvalRow = 59
    /\ Len(Series) > 60
    /\ OnWatchlist
    /\ ~az.res.ok

\* the call passes the guards of lines 59, 70 and 107-110
Analyzable ==
    /\ Len(Series) >= MinRows
    /\ az.args.scope = "all" \/ OnWatchlist
    /\ EvaluationIndex(Series, az.args.mode, az.args.bt_date) >= 0

\* the evaluation row has close <= MA20, DIF <= DEA and K <= D
WeakRow ==
    LET i == EvalRow
        ind == LibAt(az.lib, i)
    IN  /\ ~GT(Rat(Iloc(Series, i).close, 1), sma(Series, "close", 20, i))
        /\ ind.DIF <= ind.DEA
        /\ ind.K <= ind.D

\* C17 as claimed: on such a row a symbol off the watchlist is excluded, and
\* a symbol on the watchlist is retained with the match reason "watchlist
\* observation", whatever the other features.
C17_WeakRowAnyFeatures ==
    (Analyzed /\ Analyzable /\ WeakRow) =>
        IF OnWatchlist
        THEN az.res.ok /\ az.res.match_str = <<"watchlist observation">>
        ELSE ~az.res.ok

\* C17 amended: on such a row a symbol off the watchlist is excluded, and a
\* symbol on the watchlist is retained, with the match reason "volume surge"
\* when its volume ratio is above 1.5 and "watchlist observation" otherwise.
C17_WeakRowByVolume ==
    (Analyzed /\ Analyzable /\ WeakRow) =>
        IF OnWatchlist
        THEN /\ az.res.ok
             /\ az.res.match_str =
                    IF az.res.vol_ratio > 150 THEN <<"volume surge">>
                    ELSE <<"watchlist observation">>
        ELSE ~az.res.ok

\* a watchlist symbol is retained on a row below its falling MA20 with both
\* death crosses and a volume ratio between 1.2 and 1.5
C17_Witness ==
    /\ Analyzed /\ Analyzable /\ WeakRow
    /\ OnWatchlist
    /\ az.res.ok
    /\ az.res.vol_state = "volume surge"
    /\ az.res.match_str = <<"watchlist observation">>
    /\ LT(Rat(az.res.buy_price, 1), sma(Series, "close", 20, EvalRow))

\* C18: in the result of a backtest, for k in {5, 10, 30} and n rows after
\* the evaluation index i, the T+k return is (close[i+k] - close[i]) /
\* close[i], as a percentage rounded to two places, when n >= k, and zero
\* when n < k.
C18_BacktestHorizon ==
    (Analyzed /\ az.res.ok /\ az.res.forward.present) =>
        LET i == EvalRow
            n == Len(Series) - 1 - i
            ReturnAt(k) == IF k = 5 THEN az.res.forward.t5
                           ELSE IF k = 10 THEN az.res.forward.t10
                           ELSE az.res.forward.t30
        IN  \A k \in {5, 10, 30} :
                ReturnAt(k) =
                    IF n >= k
                    THEN Round(Rat(Iloc(Series, i + k).close - Iloc(Series, i).close,
                                       Iloc(Series, i).close), 10000)
                    ELSE 0

\* exactly ten rows after the evaluation row: T+5 and T+10 are computed,
\* T+30 is zero
C18_Witness ==
    /\ Analyzed /\ az.res.ok /\ az.res.forward.present
    /\ Backtesting
    /\ Len(Series) - 1 - EvalRow = 10
    /\ az.res.forward.t5 # 0
    /\ az.res.forward.t10 # 0
    /\ az.res.forward.t30 = 0

----------------------------------------------------------------------------
(* Properties of a chunk, of the pool and of the run's accounting *)

\* C21: in a chunk whose login succeeded, a failed fetch appends its task,
\* and no other, to the failed list, leaves the success list alone and moves
\* the loop to the next task of the chunk (to the logout after the last);
\* when the call returns, the success and failed lists are disjoint and hold
\* every task of the chunk once.
C21_FailureIsolation ==
    /\ [][\A w \in Slots :
              (/\ wk[w].pc = "fetch"
               /\ wk'[w].pc # "idle"
               /\ wk'[w].failed # wk[w].failed) =>
              /\ wk'[w].failed = Append(wk[w].failed, CurCode(wk[w]))
              /\ wk'[w].success = wk[w].success
              /\ wk'[w].tasks = wk[w].tasks
              /\ IF wk[w].k < Len(wk[w].tasks)
                 THEN wk'[w].pc = "fetch" /\ wk'[w].k = wk[w].k + 1
                 ELSE wk'[w].pc = "logout"]_vars
    /\ [](\A w \in Slots :
              (wk[w].pc = "returned" /\ wk[w].k >= 1) =>
              /\ wk[w].k = Len(wk[w].tasks)
              /\ Range(wk[w].success) \cap Range(wk[w].failed) = {}
              /\ Range(wk[w].success) \cup Range(wk[w].failed) = CodesOf(wk[w].tasks)
              /\ Len(wk[w].success) + Len(wk[w].failed) = Len(wk[w].tasks))

\* a chunk of chunk_size tasks has returned with its first task failed and
\* every other task succeeded
C21_Witness ==
    \E w \in Slots :
        /\ wk[w].pc = "returned"
        /\ Len(wk[w].tasks) = chunk_size
        /\ wk[w].failed = <<wk[w].tasks[1].item>>
        /\ Len(wk[w].success) = chunk_size - 1

\* C22: no two pool processes have tasks in flight on the same series file.
C22_OneWorkerPerFile ==
    LET InFlight(w) == wk[w].pc \in {"fetch", "read", "open", "write", "written"}
    IN  \A v, w \in Slots :
            (v # w /\ InFlight(v) /\ InFlight(w)) => CurCode(wk[v]) # CurCode(wk[w])

\* C23: a pool process that has logged in gives up its session in no other
\* way than bs.logout(): it does not stop working on its chunk while logged
\* in.
C23_LogoutBeforeStop ==
    [][\A w \in Slots :
          (wk[w].logged_in /\ ~wk'[w].logged_in) => wk[w].pc = "logout"]_vars

\* C24: once the breaker has tripped no series file is half-written: each is
\* absent or holds the whole answer of upstream; and no chunk is left to be
\* taken.
C24_CancellationLeavesFilesWhole ==
    abort =>
        /\ \A c \in DOMAIN files :
               files[c] \in {NoFile, CsvFile(NumericRows(offer.rows))}
        /\ chunks = <<>>

\* C25: the succeeded set is a subset of the planned symbols and only grows,
\* and the success count is the number of distinct symbols in it.
C25_CountIsDistinctSucceeded ==
    /\ [](/\ finished_codes \subseteq CodesOf(tasks_to_run)
          /\ final_success_count = Cardinality(finished_codes))
    /\ [][finished_codes \subseteq finished_codes']_vars

----------------------------------------------------------------------------
(* Properties of the strategy filter and of the support/resistance window *)

\* C26: a result with the match reason "watchlist observation" is the result
\* of a symbol on the watchlist.
C26_ObservationOnlyOnWatchlist ==
    (Analyzed /\ az.res.ok /\ az.res.match_str = <<"watchlist observation">>) =>
        OnWatchlist

\* C27: the resistance is the highest high and the support the lowest low of
\* the rows max(0, i-29)..i, the 30 rows that end at the evaluation index i.
C27_TrailingThirtyRows ==
    (Analyzed /\ az.res.ok) =>
        LET i == EvalRow
            window == (IF i - 29 > 0 THEN i - 29 ELSE 0)..i
        IN  /\ az.res.high_30d = MaxOf({Iloc(Series, j).high : j \in window})
            /\ az.res.low_30d = MinOf({Iloc(Series, j).low : j \in window})

====
